---- MODULE Spec2Model ----
(***************************************************************************)
(* Model of speed_estimation/modules/evaluation/evaluate.py: the log       *)
(* loader (__load_log), the two window aggregators, the alignment loop     *)
(* (__generate_aligned_estimations) and the report builder                 *)
(* (plot_absolute_error).                                                  *)
(*                                                                         *)
(* Strings are sequences of one-character strings, so that strip, split,   *)
(* concatenation and os.path.join are computed and not assumed.  A float   *)
(* is an exact fraction [num, den]; NaN is the fraction with den = 0.      *)
(***************************************************************************)
EXTENDS Integers, Sequences, FiniteSets, TLC

\* ------------------------------------------------------------------ bounds
MaxLogs == 2      \* longest list of logs handed to plot_absolute_error

\* ------------------------------------------------------- program constants
max_depth == 0            \* __load_log: max_depth = 0
RangeStart == 300         \* range(300, 30 * 60, 60)
RangeStopMinutes == 30
RangeStopFactor == 60
RangeStep == 60
WindowLength == 60        \* end = start + 60
FramesPerSecond == 50     \* timeStart *= 50; timeEnd *= 50

RangeStop == RangeStopMinutes * RangeStopFactor

\* ----------------------------------------------------------------- values
None == <<"None">>
NaN == [num |-> 0, den |-> 0]

Abs(n) == IF n < 0 THEN -n ELSE n

RECURSIVE Gcd(_, _)
Gcd(a, b) == IF b = 0 THEN a ELSE Gcd(b, a % b)

\* the float n/d (d > 0), in lowest terms
Frac(n, d) ==
    LET g == Gcd(Abs(n), d) IN [num |-> n \div g, den |-> d \div g]

IsNaN(x) == x.den = 0

\* float subtraction: NaN is absorbing
FSub(x, y) ==
    IF IsNaN(x) \/ IsNaN(y) THEN NaN
    ELSE Frac(x.num * y.den - y.num * x.den, x.den * y.den)

FAdd(x, y) ==
    IF IsNaN(x) \/ IsNaN(y) THEN NaN
    ELSE Frac(x.num * y.den + y.num * x.den, x.den * y.den)

RECURSIVE FSum(_)
FSum(s) == IF s = <<>> THEN Frac(0, 1) ELSE FAdd(s[1], FSum(Tail(s)))

\* pandas Series.mean(): NaN entries are skipped, the mean of nothing is NaN
SeriesMean(s) ==
    LET vals == SelectSeq(s, LAMBDA x : ~IsNaN(x))
        t == FSum(vals)
    IN IF vals = <<>> THEN NaN ELSE Frac(t.num, t.den * Len(vals))

\* ---------------------------------------------------------------- strings
Slash == "/"

RECURSIVE LStrip(_, _)
LStrip(s, c) == IF s # <<>> /\ s[1] = c THEN LStrip(Tail(s), c) ELSE s

RECURSIVE RStrip(_, _)
RStrip(s, c) ==
    IF s # <<>> /\ s[Len(s)] = c THEN RStrip(SubSeq(s, 1, Len(s) - 1), c) ELSE s

\* str.strip(c)
Strip(s, c) == RStrip(LStrip(s, c), c)

\* str.split(c)[-1]: what follows the last c, the whole string without one
RECURSIVE SplitLast(_, _)
SplitLast(s, c) ==
    IF \E i \in 1..Len(s) : s[i] = c
    THEN SplitLast(SubSeq(s, (CHOOSE i \in 1..Len(s) : s[i] = c) + 1, Len(s)), c)
    ELSE s

\* os.path.join(a, b) for a relative b
PathJoin(a, b) ==
    IF a = <<>> THEN b
    ELSE IF a[Len(a)] = Slash THEN a \o b
    ELSE a \o <<Slash>> \o b

CarsCsv == <<"c", "a", "r", "s", ".", "c", "s", "v">>
DepthTag == <<"_", "d", "e", "p", "t", "h", "_">>
EstimationsSuffix == <<"_", "e", "s", "t", "i", "m", "a", "t", "i", "o", "n", "s", ".", "p", "d", "f">>
MaeSuffix == <<"_", "m", "a", "e", ".", "p", "d", "f">>
ErrorSuffix == <<"_", "e", "r", "r", "o", "r", ".", "c", "s", "v">>
TruthColumn == <<"t", "r", "u", "t", "h">>
TimestampsColumn == <<"t", "i", "m", "e", "s", "t", "a", "m", "p", "s">>
Underscore == <<"_">>

\* ------------------------------------------------------------------ inputs
\* A line of a log, by what the loader looks at: the text re.search finds
\* after "Video: " (None without the marker), whether the line starts with
\* "INFO:root:{", whether line[10:] is JSON, and the object it decodes to.
EmptyDict == [k \in {} |-> 0]

VideoLine(path) ==
    [video |-> path, candidate |-> FALSE, wellformed |-> TRUE, dict |-> EmptyDict]

JunkLine ==
    [video |-> None, candidate |-> FALSE, wellformed |-> TRUE, dict |-> EmptyDict]

ObservationLine(f, speed) ==
    [video |-> None, candidate |-> TRUE, wellformed |-> TRUE,
     dict |-> [frameId |-> f, avgSpeedTowards |-> Frac(speed, 1)]]

\* a record of another event type: no avgSpeedTowards key
EventLine(f) ==
    [video |-> None, candidate |-> TRUE, wellformed |-> TRUE, dict |-> [frameId |-> f]]

\* starts with the marker, but the rest is not JSON
MalformedLine ==
    [video |-> None, candidate |-> TRUE, wellformed |-> FALSE, dict |-> EmptyDict]

\* "/a/" and "/b": one video directory written with its trailing slash, one without
VideoPaths == {<<"/", "a", "/">>, <<"/", "b">>}

\* the frame on the boundary of the first two windows, and the one after it
BoundaryFrame == (RangeStart + WindowLength) * FramesPerSecond

FirstLines == {VideoLine(p) : p \in VideoPaths} \cup {JunkLine}

\* what follows the first line: nothing, one line of each kind, two
\* Observations of one window, Observations around another record, and a
\* malformed line after a good one
Bodies ==
    { <<>>,
      <<ObservationLine(BoundaryFrame, 42)>>,
      <<ObservationLine(BoundaryFrame + 1, 45)>>,
      <<EventLine(BoundaryFrame)>>,
      <<MalformedLine>>,
      <<ObservationLine(BoundaryFrame - 1, 41), ObservationLine(BoundaryFrame, 42)>>,
      <<ObservationLine(BoundaryFrame, 42), EventLine(BoundaryFrame),
        ObservationLine(BoundaryFrame + 1, 45)>>,
      <<ObservationLine(BoundaryFrame, 42), MalformedLine>> }

MissingLog == [exists |-> FALSE, lines |-> <<>>]

LogFiles ==
    {[exists |-> TRUE, lines |-> <<f>> \o b] : f \in FirstLines, b \in Bodies}
        \cup {MissingLog}

LogLists == UNION {[1..n -> LogFiles] : n \in 1..MaxLogs}

GroundTruthRecord(s, e, v) == [start |-> s, end |-> e, speed |-> Frac(v, 1)]

\* cars.csv: rows inside a window, on its boundaries, and across them
SampleTruth ==
    << GroundTruthRecord(350, 360, 40),
       GroundTruthRecord(340, 350, 43),
       GroundTruthRecord(360, 360, 50),
       GroundTruthRecord(360, 400, 55),
       GroundTruthRecord(410, 430, 60),
       GroundTruthRecord(1790, 1800, 30) >>

GroundTruthTables == {<<>>, SampleTruth}

\* the files named cars.csv on disk: one in every video directory, or none
CarsFiles == {PathJoin(p, CarsCsv) : p \in VideoPaths}

OutputDirs == {<<>>, <<"o", "u", "t">>}

\* values of uuid.uuid4().hex[:10]
RandomIds ==
    { <<"0", "1", "2", "3", "4", "5", "6", "7", "8", "9">>,
      <<"a", "b", "c", "d", "e", "f", "0", "1", "2", "3">> }

\* -------------------------------------------------------------- Log Loader
RECURSIVE ParseLines(_, _, _)
\* the loop over the lines: the Observations, or the failure of json.loads
ParseLines(lines, idx, avg_speeds) ==
    IF idx > Len(lines) THEN [error |-> "", avg_speeds |-> avg_speeds]
    ELSE LET line == lines[idx] IN
         IF ~line.candidate THEN ParseLines(lines, idx + 1, avg_speeds)
         ELSE IF ~line.wellformed THEN [error |-> "JSONDecodeError", avg_speeds |-> <<>>]
         ELSE IF "avgSpeedTowards" \in DOMAIN line.dict
              THEN ParseLines(lines, idx + 1, Append(avg_speeds, line.dict))
              ELSE ParseLines(lines, idx + 1, avg_speeds)

\* cars_path.strip("/").split("/")[-1]
VideoId(cars_path) == SplitLast(Strip(cars_path, Slash), Slash)

\* f"{video_id}_depth_{max_depth}"
RunId(cars_path) ==
    (IF cars_path # None THEN VideoId(cars_path) ELSE <<"-", "1">>)
        \o DepthTag \o <<ToString(max_depth)>>

load_log(log) ==
    IF ~log.exists
    THEN [error |-> "FileNotFoundError", run_id |-> <<>>, estimation |-> <<>>,
          cars_path |-> None]
    ELSE LET cars_path == IF Len(log.lines) > 0 THEN log.lines[1].video ELSE None
             parsed == ParseLines(log.lines, 1, <<>>)
         IN IF parsed.error # ""
            THEN [error |-> parsed.error, run_id |-> <<>>, estimation |-> <<>>,
                  cars_path |-> None]
            ELSE [error |-> "", run_id |-> RunId(cars_path),
                  estimation |-> parsed.avg_speeds, cars_path |-> cars_path]

\* ------------------------------------------------------- Window Aggregator
\* the columns of pd.DataFrame(list of dicts): the union of the keys
Columns(frame) == UNION {DOMAIN frame[i] : i \in 1..Len(frame)}

GroundTruthSelected(row, timeStart, timeEnd) ==
    row.start > timeStart /\ row.end <= timeEnd

avg_speed_for_time_ground_truth(cars_truth, timeStart, timeEnd) ==
    LET cars_to_avg ==
            SelectSeq(cars_truth, LAMBDA r : GroundTruthSelected(r, timeStart, timeEnd))
    IN SeriesMean([i \in 1..Len(cars_to_avg) |-> cars_to_avg[i].speed])

\* a window that includes its start
EstimationSelectedFromStart(row, timeStart, timeEnd) ==
    row.frameId >= timeStart * FramesPerSecond /\ row.frameId <= timeEnd * FramesPerSecond

EstimationSelected(row, timeStart, timeEnd) ==
    row.frameId > timeStart * FramesPerSecond /\ row.frameId <= timeEnd * FramesPerSecond

\* estimation["frameId"] and estimation_avg["avgSpeedTowards"] need their columns
EstimationHasColumns(estimation) ==
    {"frameId", "avgSpeedTowards"} \subseteq Columns(estimation)

avg_speed_for_time_estimation(estimation, timeStart, timeEnd) ==
    LET estimation_avg ==
            SelectSeq(estimation, LAMBDA r : EstimationSelected(r, timeStart, timeEnd))
    IN SeriesMean([i \in 1..Len(estimation_avg) |-> estimation_avg[i].avgSpeedTowards])

\* -------------------------------------------------------------------- state
VARIABLES
    logs,               \* the log files named by the argument logs, in order
    save_file_path,     \* the argument save_file_path
    disk_truth,         \* what a cars.csv on disk holds
    disk_cars,          \* the paths at which a cars.csv exists
    pc,                 \* the statement plot_absolute_error is at
    error,              \* the exception that ended the call, "" without one
    run_ids, loaded_avg_speeds, cars_paths,   \* line 87, filled log by log
    cars_path,          \* line 90
    csv_arg,            \* the path handed to pd.read_csv
    cars,               \* line 95: the ground-truth table
    truth, estimations, timestamps, start,    \* __generate_aligned_estimations
    video_id, df, id,   \* lines 100-109
    files,              \* the files written: [path, content]
    shown               \* the figures handed to fig.show()

vars ==
    << logs, save_file_path, disk_truth, disk_cars, pc, error, run_ids,
       loaded_avg_speeds, cars_paths, cars_path, csv_arg, cars, truth,
       estimations, timestamps, start, video_id, df, id, files, shown >>

inputs == << logs, save_file_path, disk_truth, disk_cars >>
loaded == << run_ids, loaded_avg_speeds, cars_paths, cars_path >>
aligned == << truth, estimations, timestamps, start >>
outputs == << files, shown >>

NoTable == [columns |-> <<>>, rows |-> <<>>]

Init ==
    /\ logs \in LogLists
    /\ save_file_path \in OutputDirs
    /\ disk_truth \in GroundTruthTables
    /\ disk_cars \in {{}, CarsFiles}
    /\ pc = "load"
    /\ error = ""
    /\ run_ids = <<>>
    /\ loaded_avg_speeds = <<>>
    /\ cars_paths = <<>>
    /\ cars_path = None
    /\ csv_arg = None
    /\ cars = None
    /\ truth = <<>>
    /\ estimations = EmptyDict
    /\ timestamps = <<>>
    /\ start = 0
    /\ video_id = None
    /\ df = NoTable
    /\ id = None
    /\ files = {}
    /\ shown = <<>>

\* the order with the check of the video paths moved behind the outputs
LateCheckFlow ==
    [load |-> "read_truth", read_truth |-> "align_init", align |-> "assemble",
     assemble |-> "estimations", estimations |-> "error", error |-> "summary",
     summary |-> "check", check |-> "done"]

\* the order of the statements of plot_absolute_error
Flow ==
    [load |-> "check", check |-> "read_truth", read_truth |-> "align_init",
     align |-> "assemble", assemble |-> "estimations", estimations |-> "error",
     error |-> "summary", summary |-> "done"]

Raise(e) == pc' = "failed" /\ error' = e

Range(s) == {s[i] : i \in 1..Len(s)}

\* line 87: the next log of the list is loaded; after the last one (line 90)
\* cars_path is the first log's path
LoadLog ==
    /\ pc = "load"
    /\ LET r == load_log(logs[Len(run_ids) + 1]) IN
       IF r.error # ""
       THEN /\ Raise(r.error)
            /\ UNCHANGED loaded
       ELSE /\ run_ids' = Append(run_ids, r.run_id)
            /\ loaded_avg_speeds' = Append(loaded_avg_speeds, r.estimation)
            /\ cars_paths' = Append(cars_paths, r.cars_path)
            /\ IF Len(run_ids) + 1 = Len(logs)
               THEN pc' = Flow.load /\ cars_path' = cars_paths'[1]
               ELSE UNCHANGED << pc, cars_path >>
            /\ error' = error
    /\ UNCHANGED << inputs, csv_arg, cars, aligned, video_id, df, id, outputs >>

\* a comparison that lets an unknown path pass
DifferentKnownVideo(c, first) == c # None /\ first # None /\ c # first

\* lines 91-92: the paths that make the loop raise
DifferentVideo(c, first) == c # first

\* lines 89-93
CheckSameVideo ==
    /\ pc = "check"
    /\ IF \E i \in 1..Len(cars_paths) : DifferentVideo(cars_paths[i], cars_path)
       THEN Raise("Exception")
       ELSE pc' = Flow.check /\ error' = error
    /\ UNCHANGED << inputs, loaded, csv_arg, cars, aligned, video_id, df, id, outputs >>

\* cars_path + "cars.csv"
CarsCsvPath(path) == path \o CarsCsv

\* line 95
ReadGroundTruth ==
    /\ pc = "read_truth"
    /\ IF cars_path = None
       THEN Raise("TypeError") /\ UNCHANGED << csv_arg, cars >>
       ELSE /\ csv_arg' = CarsCsvPath(cars_path)
            /\ IF csv_arg' \in disk_cars
               THEN cars' = disk_truth /\ pc' = Flow.read_truth /\ error' = error
               ELSE Raise("FileNotFoundError") /\ cars' = cars
    /\ UNCHANGED << inputs, loaded, aligned, video_id, df, id, outputs >>

\* lines 57-59
AlignInit ==
    /\ pc = "align_init"
    /\ truth' = <<>>
    /\ estimations' = [k \in Range(run_ids) |-> <<>>]
    /\ timestamps' = <<>>
    /\ start' = RangeStart
    /\ pc' = "align"
    /\ UNCHANGED << inputs, loaded, error, csv_arg, cars, video_id, df, id, outputs >>

RECURSIVE AppendEstimations(_, _, _, _)
\* lines 64-67 from run idx on: the dictionary after the appends, and whether an
\* aggregation raised
AppendEstimations(est, idx, s, e) ==
    IF idx > Len(run_ids) THEN [estimations |-> est, error |-> ""]
    ELSE IF ~EstimationHasColumns(loaded_avg_speeds[idx])
         THEN [estimations |-> est, error |-> "KeyError"]
         ELSE AppendEstimations(
                  [est EXCEPT ![run_ids[idx]] =
                      Append(@, avg_speed_for_time_estimation(loaded_avg_speeds[idx], s, e))],
                  idx + 1, s, e)

\* lines 61-68: one window
AlignWindow ==
    /\ pc = "align"
    /\ start < RangeStop
    /\ LET end == start + WindowLength
           r == AppendEstimations(estimations, 1, start, end)
       IN /\ truth' = Append(truth, avg_speed_for_time_ground_truth(cars, start, end))
          /\ estimations' = r.estimations
          /\ IF r.error # ""
             THEN Raise(r.error) /\ UNCHANGED << timestamps, start >>
             ELSE /\ timestamps' = Append(timestamps, end)
                  /\ start' = start + RangeStep
                  /\ UNCHANGED << pc, error >>
    /\ UNCHANGED << inputs, loaded, csv_arg, cars, video_id, df, id, outputs >>

\* line 70, and the end of range(300, 30 * 60, 60)
AlignReturn ==
    /\ pc = "align"
    /\ start >= RangeStop
    /\ pc' = Flow.align
    /\ UNCHANGED << inputs, loaded, error, csv_arg, cars, aligned, video_id, df, id,
                    outputs >>

RECURSIVE Dedup(_)
\* the keys of a dict built from a list with repetitions, in insertion order
Dedup(s) ==
    IF s = <<>> THEN <<>>
    ELSE LET rest == Dedup(SubSeq(s, 1, Len(s) - 1)) IN
         IF s[Len(s)] \in Range(rest) THEN rest ELSE Append(rest, s[Len(s)])

\* {"truth": truth, **estimations, "timestamps": timestamps}
TableColumns == <<TruthColumn>> \o Dedup(run_ids) \o <<TimestampsColumn>>

TableColumn(c) ==
    IF c = TruthColumn THEN truth
    ELSE IF c = TimestampsColumn THEN [i \in 1..Len(timestamps) |-> Frac(timestamps[i], 1)]
    ELSE estimations[c]

\* df.dropna(axis=0)
DropNa(rows) == SelectSeq(rows, LAMBDA r : \A c \in DOMAIN r : ~IsNaN(r[c]))

\* lines 100-105
AssembleTable ==
    /\ pc = "assemble"
    /\ IF \E c \in Range(TableColumns) : Len(TableColumn(c)) # Len(truth)
       THEN Raise("ValueError") /\ UNCHANGED << video_id, df >>
       ELSE /\ video_id' = VideoId(cars_path)
            /\ df' = [columns |-> TableColumns,
                      rows |-> DropNa([i \in 1..Len(truth) |->
                                  [c \in Range(TableColumns) |-> TableColumn(c)[i]]])]
            /\ pc' = Flow.assemble
            /\ error' = error
    /\ UNCHANGED << inputs, loaded, csv_arg, cars, aligned, id, outputs >>

FileName(dir, vid, rid, suffix) == PathJoin(dir, vid \o Underscore \o rid \o suffix)

\* px.line(df, x="timestamps", y=..., title=...)
Figure(kind, y, rows) == [title |-> kind, y |-> y, data |-> rows]

\* lines 109-116
OutputEstimations ==
    /\ pc = "estimations"
    /\ \E rid \in RandomIds :
        /\ id' = rid
        /\ LET fig == Figure("Absolute Estimations", df.columns, df.rows) IN
           IF save_file_path # <<>>
           THEN /\ files' = files \cup
                       {[path |-> FileName(save_file_path, video_id, rid, EstimationsSuffix),
                         content |-> fig]}
                /\ shown' = shown
           ELSE /\ shown' = Append(shown, fig)
                /\ files' = files
    /\ pc' = Flow.estimations
    /\ UNCHANGED << inputs, loaded, error, csv_arg, cars, aligned, video_id, df >>

\* df[run_id_list] = df[run_id_list].sub(df["truth"], axis=0)
SubTruth(rows) ==
    [i \in 1..Len(rows) |->
        [c \in DOMAIN rows[i] |->
            IF c \in Range(run_ids) THEN FSub(rows[i][c], rows[i][TruthColumn])
            ELSE rows[i][c]]]

\* lines 118-127
OutputError ==
    /\ pc = "error"
    /\ df' = [df EXCEPT !.rows = SubTruth(df.rows)]
    /\ LET fig == Figure("Mean Absolute Error", Tail(df.columns), df'.rows) IN
       IF save_file_path # None
       THEN /\ files' = files \cup
                   {[path |-> FileName(save_file_path, video_id, id, MaeSuffix),
                     content |-> fig]}
            /\ shown' = shown
       ELSE /\ shown' = Append(shown, fig)
            /\ files' = files
    /\ pc' = Flow.error
    /\ UNCHANGED << inputs, loaded, error, csv_arg, cars, aligned, video_id, id >>

\* df[run_id_list].mean(axis=0)
ErrorSummary ==
    [c \in Range(run_ids) |-> SeriesMean([i \in 1..Len(df.rows) |-> df.rows[i][c]])]

\* lines 129-131
WriteSummary ==
    /\ pc = "summary"
    /\ IF save_file_path # None
       THEN files' = files \cup
                {[path |-> FileName(save_file_path, video_id, id, ErrorSuffix),
                  content |-> ErrorSummary]}
       ELSE files' = files
    /\ shown' = shown
    /\ pc' = Flow.summary
    /\ UNCHANGED << inputs, loaded, error, csv_arg, cars, aligned, video_id, df, id >>

Next ==
    \/ LoadLog
    \/ CheckSameVideo
    \/ ReadGroundTruth
    \/ AlignInit
    \/ AlignWindow
    \/ AlignReturn
    \/ AssembleTable
    \/ OutputEstimations
    \/ OutputError
    \/ WriteSummary

Spec == Init /\ [][Next]_vars

\* ------------------------------------------------------------------ claims
\* the windows of range(300, 30 * 60, 60), as (start, end)
Windows ==
    { [start |-> RangeStart + RangeStep * k, end |-> RangeStart + RangeStep * k + WindowLength] :
        k \in 0..((RangeStop - RangeStart - 1) \div RangeStep) }

AfterAlign == {"assemble", "estimations", "error", "summary", "done"}
AfterAssemble == {"estimations", "error", "summary", "done"}

AllLoaded == Len(cars_paths) = Len(logs)

PathsOf(fs) == {f.path : f \in fs}

\* C1: the destination alone decides the output mode: with the empty string
\* both charts are shown and no file is written, with a directory both chart
\* images and the summary CSV are written there and nothing is shown.
C1_OutputModeByDestination ==
    /\ save_file_path = <<>> => files = {}
    /\ save_file_path # <<>> => shown = <<>>
    /\ pc = "done" =>
         IF save_file_path = <<>>
         THEN Len(shown) = 2
         ELSE PathsOf(files) =
                { FileName(save_file_path, video_id, id, sfx) :
                    sfx \in {EstimationsSuffix, MaeSuffix, ErrorSuffix} }

\* two logs that load, name the same video on their first line and hold an
\* Observation each, with the ground truth of that video on disk
TwoRunsOfOneVideo ==
    /\ Len(logs) = 2
    /\ \A i \in 1..2 :
         LET r == load_log(logs[i]) IN
         /\ r.error = ""
         /\ r.cars_path # None
         /\ r.cars_path = load_log(logs[1]).cars_path
         /\ r.estimation # <<>>
    /\ CarsCsvPath(load_log(logs[1]).cars_path) \in disk_cars

\* C2: for two well-formed logs of the same video path, each with an
\* Observation, the table is assembled and has the truth column, one column
\* for each of the two runs and the timestamp column.
C2_TwoRunsGiveThreeValueColumns ==
    TwoRunsOfOneVideo =>
        /\ pc # "failed"
        /\ pc \in AfterAssemble =>
             /\ Len(df.columns) = 4
             /\ Cardinality(Range(df.columns)) = 4

LoadedPathsDiffer ==
    /\ pc # "load"
    /\ AllLoaded
    /\ \E i, j \in 1..Len(cars_paths) : cars_paths[i] # cars_paths[j]

\* C3: when two loaded runs name different videos the call fails with the
\* explicit exception, and before the ground truth is read and before any
\* window is aggregated.
C3_DifferentVideosFailBeforeAggregation ==
    LoadedPathsDiffer =>
        /\ pc = "check" \/ (pc = "failed" /\ error = "Exception")
        /\ csv_arg = None
        /\ cars = None
        /\ truth = <<>>
        /\ timestamps = <<>>
        /\ DOMAIN estimations = {}

C3_Witness ==
    /\ LoadedPathsDiffer
    /\ pc = "failed"
    /\ error = "Exception"

FatalConditions == {"JSONDecodeError", "FileNotFoundError", "Exception"}

\* C4: a call that ends in a malformed line, a missing log, differing video
\* paths or a missing ground-truth file has written no file, whichever log
\* of the list caused it.
C4_NoArtifactOnFatalCondition ==
    (pc = "failed" /\ error \in FatalConditions) => files = {}

\* a malformed line in the second log, after the first one loaded
C4_Witness ==
    /\ pc = "failed"
    /\ error = "JSONDecodeError"
    /\ Len(logs) = 2
    /\ Len(run_ids) = 1
    /\ files = {}

\* C5: for every ground truth and every list of runs the alignment visits
\* the windows (300,360], ..., (1740,1800] in order and returns the
\* timestamps 360, 420, ..., 1800.
C5_ScheduleForEveryInput ==
    /\ pc = "failed" => error # "KeyError"
    /\ pc = "align" => start = 300 + 60 * Len(timestamps)
    /\ pc \in {"align"} \cup AfterAlign =>
         \A k \in 1..Len(timestamps) : timestamps[k] = 300 + 60 * k
    /\ pc \in AfterAlign => Len(timestamps) = 25

EstimationWindowsOf(row) ==
    {w \in Windows : EstimationSelected(row, w.start, w.end)}

GroundTruthWindowsOf(row) ==
    {w \in Windows : GroundTruthSelected(row, w.start, w.end)}

\* C6: a window excludes its start and includes its end, for Observations
\* (in frames, 50 to the second) and for ground-truth rows, so nothing that
\* the alignment aggregates is counted in two windows of the schedule.
C6_WindowMembership ==
    pc = "align" =>
        /\ \A i \in 1..Len(loaded_avg_speeds) :
             \A k \in 1..Len(loaded_avg_speeds[i]) :
               LET row == loaded_avg_speeds[i][k] IN
               /\ \A w \in Windows :
                    /\ EstimationSelected(row, w.start, w.end)
                         <=> (w.start * 50 < row.frameId /\ row.frameId <= w.end * 50)
                    /\ row.frameId = w.start * 50
                         => ~EstimationSelected(row, w.start, w.end)
                    /\ row.frameId = w.end * 50
                         => EstimationSelected(row, w.start, w.end)
               /\ Cardinality(EstimationWindowsOf(row)) <= 1
        /\ \A k \in 1..Len(cars) :
             LET row == cars[k] IN
             /\ \A w \in Windows :
                  GroundTruthSelected(row, w.start, w.end)
                    <=> (row.start > w.start /\ row.end <= w.end)
             /\ row.start <= row.end => Cardinality(GroundTruthWindowsOf(row)) <= 1

\* two windows done for a run with an Observation on their boundary: it was
\* counted in the first and not in the second
C6_Witness ==
    /\ pc = "align"
    /\ Len(timestamps) = 2
    /\ Len(run_ids) = 1
    /\ loaded_avg_speeds[1] # <<>>
    /\ \A k \in 1..Len(loaded_avg_speeds[1]) : loaded_avg_speeds[1][k].frameId = 360 * 50
    /\ ~IsNaN(estimations[run_ids[1]][1])
    /\ IsNaN(estimations[run_ids[1]][2])
    /\ cars = SampleTruth

\* C7: a window without data is never an error: for every run, the run of a
\* log without Observations included, aggregating it gives an absence value,
\* and no row of the final table holds an absence value.
C7_MissingDataIsNeverAnError ==
    /\ pc = "failed" => error # "KeyError"
    /\ pc \in AfterAssemble =>
         \A i \in 1..Len(df.rows) : \A c \in DOMAIN df.rows[i] : ~IsNaN(df.rows[i][c])

\* C8: a log without the marker loads with an unknown path and the run id
\* "-1_depth_0", and a call whose runs all have an unknown path passes the
\* consistency check and does not fail over the unknown path.
C8_UnknownVideoPathTolerated ==
    /\ \A i \in 1..Len(cars_paths) :
         logs[i].lines[1].video = None =>
            /\ cars_paths[i] = None
            /\ run_ids[i] = <<"-", "1", "_", "d", "e", "p", "t", "h", "_", "0">>
    /\ (AllLoaded /\ \A i \in 1..Len(cars_paths) : cars_paths[i] = None) =>
         ~(pc = "failed" /\ error \in {"Exception", "TypeError"})

\* C9: the ground truth is read from cars.csv inside the video directory,
\* <video_directory>/cars.csv, with or without a trailing slash on the path.
C9_GroundTruthInVideoDirectory ==
    csv_arg # None => csv_arg = PathJoin(RStrip(cars_path, Slash), CarsCsv)

\* C10: each window appends one value to the truth series, one to the
\* timestamps and one to the series of each run, so every series has as many
\* entries as windows are done, 25 on return, and entry i of run j is the
\* mean of run j's Observations in window i.
C10_OneValuePerSeriesPerWindow ==
    pc \in {"align"} \cup AfterAlign =>
        /\ Len(truth) = Len(timestamps)
        /\ Cardinality(DOMAIN estimations) = Len(run_ids)
        /\ \A j \in 1..Len(run_ids) :
             /\ Len(estimations[run_ids[j]]) = Len(timestamps)
             /\ \A i \in 1..Len(timestamps) :
                  estimations[run_ids[j]][i] =
                    avg_speed_for_time_estimation(loaded_avg_speeds[j],
                        timestamps[i] - WindowLength, timestamps[i])
        /\ pc \in AfterAlign => Len(timestamps) = 25

====
